---- MODULE Spec2Model ----
(***************************************************************************)
(* taskproc: the on-disk cache of task results (taskproc/database.py:      *)
(* IdTable, Database, InstanceDirectory), result projections               *)
(* (taskproc/future.py: MappedFuture) and the scheduler that runs a graph  *)
(* of tasks over that cache.                                               *)
(*                                                                         *)
(* The specifications of the module:                                       *)
(*   SpecIdTable  the fingerprint -> id table of one task class, used by   *)
(*                several processes (IdTable objects) on one path;         *)
(*   Spec         one process working on the Databases of two task         *)
(*                classes and their instance directories;                  *)
(*   SpecConc     overlapping get_instance_dir calls on one class, by      *)
(*                threads and processes;                                   *)
(*   SpecClear    the same with Database.clear among them;                 *)
(*   SpecRun      repeated runs of one task graph over the cache;          *)
(*   SpecSched    the scheduler's loop alone, with fairness;               *)
(*   SpecMap      chains of MappedFuture built by __getitem__.             *)
(***************************************************************************)
EXTENDS Integers, Sequences, FiniteSets, TLC

VARIABLES
    \* ---- database.py ----
    table,      \* [Classes -> [Keys -> Ids \cup {None}]]: the dc.Cache under <class>/id_table
    cache,      \* [Procs -> [Classes -> [Keys -> Ids \cup {None}]]]: IdTable.cache of each process
    results,    \* [Classes -> [Ids -> directory]]: <class>/results/<id>/
    objs,       \* [Classes -> [Keys -> InstanceDirectory object or NoObj]] held by process 1
    firstId,    \* [Classes -> [Keys -> the id the first get(key) returned; None before it; Cleared once a clear has followed it]]
    wrote,      \* [Classes -> [Keys -> id of the directory whose data/ the task wrote, or None]]
    \* ---- source.txt (database.py) ----
    source,     \* [RunClasses -> [text, mtime]]: <class>/source.txt (text 0: no such file)
    \* ---- one run_graph call (the scheduler) ----
    pc,         \* "idle" between calls, "sched" inside run_graph
    limits,     \* rate_limits of the call: [AllChannels -> limit, NoLimit where absent]
    nstate,     \* [Nodes -> "not_started" | "running" | "succeeded" | "failed"]
    toRun,      \* the nodes the resolver marked needs_run
    permits,    \* [AllChannels -> permits taken]
    executed,   \* the nodes whose body ran to success in this call (the stats)
    error,      \* the first node that failed, "" if none
    outcome,    \* what the last call returned: [kind, value, node]
    \* ---- what the claims about runs need to remember ----
    clean,      \* the last call succeeded and nothing was cleared or changed since
    pending,    \* the one node cleared by clear_task since a call succeeded, "" otherwise
    forced,     \* [RunClasses -> the new source string given since the last call started, 0 if none]
    mustRun,    \* the nodes of the classes whose source changed before the current call
    \* ---- future.py ----
    heap,       \* the Future objects built so far; a MappedFuture's task is an index into it
    base,       \* the future f the chain is built on (an index into heap)
    fut,        \* f[k1]...[kn] (an index into heap)
    path,       \* <<k1, ..., kn>>
    basePath,   \* the keys f itself was built with, <<>> when f is no projection
    direct,     \* f.get_task_result() indexed by k1, ..., kn one after the other
    \* ---- calls in progress on one class's Database (threads and processes) ----
    calls,      \* [Callers -> [pc, key, id]]: where each caller is inside get_instance_dir or clear
    got,        \* the <<fingerprint, id>> pairs IdTable.get has returned
    cleared,    \* a clear has begun
    resdir,     \* <class>/results/ exists
    \* ---- what the claims about result files need to remember ----
    saved       \* [Classes -> [Keys -> "yes" when save_result was called for the task since its directory was last created, deleted or cleared]]

dbVars  == <<table, cache, results, objs, firstId, wrote>>
mapVars == <<heap, base, fut, path, basePath, direct>>
concVars == <<calls, got, cleared, resdir>>
auxVars == <<calls, got, cleared, resdir, saved>>
runVars == <<source, pc, limits, nstate, toRun, permits, executed, error, outcome,
             clean, pending, forced, mustRun>>

-----------------------------------------------------------------------------
(* Bounds *)

NumKeys  == 2       \* fingerprints (argkeys) per task class

Keys    == 1..NumKeys
Procs   == {1, 2}   \* two processes at a time hold an IdTable object on the path; Restart replaces one
Ids     == 0..(NumKeys - 1)
None    == -1       \* Python's None where an int is expected
Classes == {"CreateFile", "GreetWithFile"}
MaxChain == 3       \* MappedFuture objects built on one origin

-----------------------------------------------------------------------------
(* IdTable (database.py:180-214) *)

EmptyTable == [k \in Keys |-> None]

\* len(self.table): the number of keys stored
TableLen(tbl) == Cardinality({k \in Keys : tbl[k] # None})

\* A transaction that assigns without looking the key up first.
IdTableTransactNoLookup(tbl, x) ==
    [value |-> TableLen(tbl), table |-> [tbl EXCEPT ![x] = TableLen(tbl)]]

\* with self.table.transact(): value = table.get(x); if None: value = len(table); table.set(x, value)
IdTableTransact(tbl, x) ==
    IF tbl[x] # None
    THEN [value |-> tbl[x], table |-> tbl]
    ELSE [value |-> TableLen(tbl), table |-> [tbl EXCEPT ![x] = TableLen(tbl)]]

\* IdTable.get: the in-process cache answers first; otherwise the transaction,
\* whose value is then cached.
IdTableGet(cch, tbl, x) ==
    IF cch[x] # None
    THEN [value |-> cch[x], table |-> tbl, cache |-> cch]
    ELSE LET t == IdTableTransact(tbl, x)
         IN  [value |-> t.value, table |-> t.table, cache |-> [cch EXCEPT ![x] = t.value]]

\* IdTable.clear: self.table.clear(); self.cache is left as it is.
IdTableClear(cch, tbl) == [table |-> EmptyTable, cache |-> cch]

\* IdTable.__init__: a new object on the same path starts with an empty cache.
IdTableNew == [k \in Keys |-> None]

-----------------------------------------------------------------------------
(* InstanceDirectory (database.py:105-177) *)

NoTarget  == <<"", None>>
NoDeps    == {}
Sentinel  == {[name |-> "__NO_DEPENDENCIES__", target |-> NoTarget]}
\* result is the mtime of result.pkl.gz (0: no such file), value what it holds
NoDir     == [exists |-> FALSE, args |-> 0, result |-> 0, value |-> 0, data |-> 0, deps |-> NoDeps]
NoObj     == [id |-> None, deps |-> NoDeps]
EmptyResults == [i \in Ids |-> NoDir]

\* InstanceDirectory.initialize: remove the directory if it is there, then
\* args.json, an empty data/, and deps/ with one link per dependency or the sentinel.
Initialize(argkey, deps) ==
    [exists |-> TRUE, args |-> argkey, result |-> 0, value |-> 0, data |-> 0,
     deps |-> IF deps # NoDeps THEN deps ELSE Sentinel]

\* A variant of __init__ that initializes whether the path exists or not.
InstanceDirectoryInitAlways(res, id, argkey, deps) == [res EXCEPT ![id] = Initialize(argkey, deps)]

\* InstanceDirectory.__init__: initialize only when results/<id> does not exist.
InstanceDirectoryInit(res, id, argkey, deps) ==
    IF ~res[id].exists THEN [res EXCEPT ![id] = Initialize(argkey, deps)] ELSE res

\* A variant of save_result that leaves no file behind.
SaveResultNowhere(res, id, obj, now) == res

\* InstanceDirectory.save_result: gzip.open(result_path, 'wb') creates or
\* truncates the file, which raises when results/<id>/ does not exist;
\* the file then holds obj and its mtime is the time of the write.
SaveResultOk(res, id) == res[id].exists
SaveResultTo(res, id, obj, now) == [res EXCEPT ![id].result = now, ![id].value = obj]

\* InstanceDirectory.load_result and get_timestamp (0: 'Result not found')
LoadResult(res, id) == res[id].value
GetTimestamp(res, id) == IF res[id].exists THEN res[id].result ELSE 0

\* InstanceDirectory.delete: initialize() with the object's own argkey and dependencies.
DeleteDir(res, id, argkey, deps) == [res EXCEPT ![id] = Initialize(argkey, deps)]

-----------------------------------------------------------------------------
(* The calls, as actions *)

\* What every get(x) records: the id the first one returned.
Cleared == None - 1
Returned(c, x, v) ==
    firstId' = IF firstId[c][x] = None THEN [firstId EXCEPT ![c][x] = v] ELSE firstId

\* What every clear of class c's table records.
ClearedAll(c) ==
    firstId' = [firstId EXCEPT ![c] = [k \in Keys |-> IF firstId[c][k] = None THEN None ELSE Cleared]]

\* IdTable.get(x) through process p's object for class c
Get(p, c, x) ==
    LET g == IdTableGet(cache[p][c], table[c], x)
    IN  /\ table'   = [table EXCEPT ![c] = g.table]
        /\ cache'   = [cache EXCEPT ![p][c] = g.cache]
        /\ Returned(c, x, g.value)
        /\ UNCHANGED <<results, objs, wrote>>

\* IdTable.clear() through process p's object for class c
Clear(p, c) ==
    LET r == IdTableClear(cache[p][c], table[c])
    IN  /\ table'   = [table EXCEPT ![c] = r.table]
        /\ cache'   = [cache EXCEPT ![p][c] = r.cache]
        /\ ClearedAll(c)
        /\ UNCHANGED <<results, objs, wrote>>

\* Database.clear(): id_table.clear(), rmtree(results/), results/.mkdir()
DatabaseClear(p, c) ==
    LET r == IdTableClear(cache[p][c], table[c])
    IN  /\ table'   = [table EXCEPT ![c] = r.table]
        /\ cache'   = [cache EXCEPT ![p][c] = r.cache]
        /\ results' = [results EXCEPT ![c] = EmptyResults]
        /\ wrote'   = [wrote EXCEPT ![c] = EmptyTable]
        /\ ClearedAll(c)
        /\ UNCHANGED objs

\* The process ends and a new one opens the same path: Database.make builds a
\* new IdTable for every class; the objects of the old process are gone.
Restart(p) ==
    /\ \E c \in DOMAIN table, k \in Keys : cache[p][c][k] # None
    /\ cache'  = [cache EXCEPT ![p] = [c \in DOMAIN table |-> IdTableNew]]
    /\ objs'   = IF p = 1 THEN [c \in DOMAIN table |-> [k \in Keys |-> NoObj]] ELSE objs
    /\ UNCHANGED <<table, results, firstId, wrote>>

\* Database.get_instance_dir(key, deps) in process 1: the id from the table,
\* then InstanceDirectory(...), whose object the task keeps.
GetInstanceDir(c, key, deps) ==
    LET g == IdTableGet(cache[1][c], table[c], key)
    IN  /\ table'   = [table EXCEPT ![c] = g.table]
        /\ cache'   = [cache EXCEPT ![1][c] = g.cache]
        /\ results' = [results EXCEPT ![c] = InstanceDirectoryInit(results[c], g.value, key, deps)]
        /\ objs'    = [objs EXCEPT ![c][key] = [id |-> g.value, deps |-> deps]]
        /\ UNCHANGED <<firstId, wrote>>

\* The tasks process 1 builds, as in tests/test_taskproc.py:110-129:
\* CreateFile(content), one per fingerprint, with no upstream, and
\* GreetWithFile(name) for the first of them, whose one upstream 'filepath'
\* is that CreateFile task's instance directory.
KeysOf(c) == IF c = "CreateFile" THEN Keys ELSE {1}

DepsOf(c) ==
    IF c = "CreateFile" THEN {NoDeps}
    ELSE IF objs["CreateFile"][1] = NoObj THEN {}
    ELSE {{[name |-> "filepath", target |-> <<"CreateFile", objs["CreateFile"][1].id>>]}}

\* InstanceDirectory.save_result on the object task (c, key) holds. Spec
\* keeps no clock: every result file has mtime 1, and holds the task's key.
SaveResult(c, key) ==
    /\ objs[c][key] # NoObj
    /\ SaveResultOk(results[c], objs[c][key].id)
    /\ results' = [results EXCEPT ![c] = SaveResultTo(results[c], objs[c][key].id, key, 1)]
    /\ UNCHANGED <<table, cache, objs, firstId, wrote>>

\* CreateFile.run_task: open(task_directory / 'test.txt', 'w').write(content);
\* the content is the task's own argument, so it names the task that wrote it.
WriteData(c, key) ==
    /\ c = "CreateFile"
    /\ objs[c][key] # NoObj
    /\ results[c][objs[c][key].id].exists
    /\ results' = [results EXCEPT ![c][objs[c][key].id].data = key]
    /\ wrote'   = [wrote EXCEPT ![c][key] = objs[c][key].id]
    /\ UNCHANGED <<table, cache, objs, firstId>>

\* clear_task: InstanceDirectory.delete on the object task (c, key) holds
ClearTask(c, key) ==
    /\ objs[c][key] # NoObj
    /\ results' = [results EXCEPT ![c] =
                      DeleteDir(results[c], objs[c][key].id, key, objs[c][key].deps)]
    /\ wrote'   = [wrote EXCEPT ![c][key] = None]
    /\ UNCHANGED <<table, cache, objs, firstId>>

\* Database.make on an empty cache directory, for the task classes cs
InitDbFor(cs) ==
    /\ table   = [c \in cs |-> EmptyTable]
    /\ cache   = [p \in Procs |-> [c \in cs |-> IdTableNew]]
    /\ results = [c \in cs |-> EmptyResults]
    /\ objs    = [c \in cs |-> [k \in Keys |-> NoObj]]
    /\ firstId = [c \in cs |-> EmptyTable]
    /\ wrote   = [c \in cs |-> EmptyTable]

InitDb == InitDbFor(Classes)

NoOutcome == [kind |-> "none", value |-> 0, node |-> ""]

InitRunIdle ==
    /\ source = <<>> /\ pc = "idle" /\ limits = <<>> /\ nstate = <<>>
    /\ toRun = {} /\ permits = <<>> /\ executed = {} /\ error = "" /\ outcome = NoOutcome
    /\ clean = FALSE /\ pending = "" /\ forced = <<>> /\ mustRun = {}

InitMapIdle ==
    /\ heap = <<>> /\ base = 0 /\ fut = 0 /\ path = <<>> /\ basePath = <<>> /\ direct = 0

InitConcIdle ==
    /\ calls = <<>> /\ got = {} /\ cleared = FALSE /\ resdir = TRUE

InitAuxIdle ==
    /\ InitConcIdle
    /\ saved = <<>>

TheClass == "CreateFile"

InitIdTable == InitDb /\ InitRunIdle /\ InitMapIdle /\ InitAuxIdle

NextIdTable ==
    \/ \E p \in Procs, x \in Keys : Get(p, TheClass, x) /\ UNCHANGED <<runVars, mapVars, auxVars>>
    \/ \E p \in Procs : Clear(p, TheClass) /\ UNCHANGED <<runVars, mapVars, auxVars>>
    \/ \E p \in Procs : DatabaseClear(p, TheClass) /\ UNCHANGED <<runVars, mapVars, auxVars>>
    \/ \E p \in Procs : Restart(p) /\ UNCHANGED <<runVars, mapVars, auxVars>>

vars == <<table, cache, results, objs, firstId, wrote,
          source, pc, limits, nstate, toRun, permits, executed, error, outcome,
          clean, pending, forced, mustRun,
          heap, base, fut, path, basePath, direct,
          calls, got, cleared, resdir, saved>>

SpecIdTable == InitIdTable /\ [][NextIdTable]_vars

\* What saved records of each call: the task of a fingerprint is "no" from
\* the creation of its directory, "yes" once save_result was called on its
\* InstanceDirectory; delete() on it and clear() of its class make it "no"
\* again.
NeverSaved == [k \in Keys |-> "no"]

NoteCreated(c, k) ==
    LET id == IdTableGet(cache[1][c], table[c], k).value
    IN  saved' = IF results[c][id].exists THEN saved ELSE [saved EXCEPT ![c][k] = "no"]

NoteSaved(c, k) == saved' = [saved EXCEPT ![c][k] = "yes"]

NoteDeleted(c, k) ==
    saved' = [saved EXCEPT ![c][k] = "no"]

NoteCleared(c) == saved' = [saved EXCEPT ![c] = NeverSaved]

Init ==
    /\ InitDb /\ InitRunIdle /\ InitMapIdle /\ InitConcIdle
    /\ saved = [c \in Classes |-> NeverSaved]

Next ==
    \/ \E c \in Classes : \E k \in KeysOf(c), d \in DepsOf(c) :
            GetInstanceDir(c, k, d) /\ NoteCreated(c, k) /\ UNCHANGED <<runVars, mapVars, concVars>>
    \/ \E c \in Classes : \E k \in KeysOf(c) :
            SaveResult(c, k) /\ NoteSaved(c, k) /\ UNCHANGED <<runVars, mapVars, concVars>>
    \/ \E c \in Classes : \E k \in KeysOf(c) : WriteData(c, k) /\ UNCHANGED <<runVars, mapVars, auxVars>>
    \/ \E c \in Classes : \E k \in KeysOf(c) :
            ClearTask(c, k) /\ NoteDeleted(c, k) /\ UNCHANGED <<runVars, mapVars, concVars>>
    \/ \E c \in Classes : DatabaseClear(1, c) /\ NoteCleared(c) /\ UNCHANGED <<runVars, mapVars, concVars>>
    \/ Restart(1) /\ UNCHANGED <<runVars, mapVars, auxVars>>

Spec == Init /\ [][Next]_vars

-----------------------------------------------------------------------------
(* Calls that overlap.  Several callers work on the Database of one class at
   the same time: the threads of one process share its IdTable object (and so
   its cache), another process has an object of its own on the same path.
   A call is cut where the code lets another caller in: IdTable.get between
   the cache lookup, the transaction and the cache write; get_instance_dir
   between get, the test path.exists() and initialize(); Database.clear
   between id_table.clear(), rmtree and mkdir.  The transaction of
   diskcache is one step. *)

Callers   == {1, 2, 3}
ProcOf(t) == IF t = 3 THEN 2 ELSE 1     \* callers 1 and 2 are threads of process 1
Clearers  == {3}                        \* the callers that call Database.clear
IdleCall  == [pc |-> "idle", key |-> None, id |-> None]

\* get_instance_dir(k, {}) begins: IdTable.get looks k up in self.cache and
\* returns what it finds there
CallGetInstanceDir(t, k) ==
    /\ calls[t].pc = "idle"
    /\ LET out == cache[ProcOf(t)][TheClass][k]
       IN  IF out # None
           THEN /\ calls' = [calls EXCEPT ![t] = [pc |-> "exists", key |-> k, id |-> out]]
                /\ got'   = got \cup {<<k, out>>}
           ELSE /\ calls' = [calls EXCEPT ![t] = [pc |-> "transact", key |-> k, id |-> None]]
                /\ got'   = got
    /\ UNCHANGED <<dbVars, cleared, resdir>>

\* with self.table.transact(): ...
Transact(t) ==
    /\ calls[t].pc = "transact"
    /\ LET r == IdTableTransact(table[TheClass], calls[t].key)
       IN  /\ table' = [table EXCEPT ![TheClass] = r.table]
           /\ calls' = [calls EXCEPT ![t].pc = "store", ![t].id = r.value]
    /\ UNCHANGED <<cache, results, objs, firstId, wrote, got, cleared, resdir>>

\* self.cache[x] = value; return value
Store(t) ==
    /\ calls[t].pc = "store"
    /\ cache' = [cache EXCEPT ![ProcOf(t)][TheClass][calls[t].key] = calls[t].id]
    /\ got'   = got \cup {<<calls[t].key, calls[t].id>>}
    /\ calls' = [calls EXCEPT ![t].pc = "exists"]
    /\ UNCHANGED <<table, results, objs, firstId, wrote, cleared, resdir>>

\* InstanceDirectory.__init__: if not self.path.exists()
Exists(t) ==
    /\ calls[t].pc = "exists"
    /\ calls' = IF results[TheClass][calls[t].id].exists
                THEN [calls EXCEPT ![t] = IdleCall]
                ELSE [calls EXCEPT ![t].pc = "initialize"]
    /\ UNCHANGED <<dbVars, got, cleared, resdir>>

\* self.initialize(); path.mkdir() raises when results/ is not there
InitializeStep(t) ==
    /\ calls[t].pc = "initialize"
    /\ results' = IF resdir
                  THEN [results EXCEPT ![TheClass][calls[t].id] = Initialize(calls[t].key, NoDeps)]
                  ELSE results
    /\ calls' = [calls EXCEPT ![t] = IdleCall]
    /\ UNCHANGED <<table, cache, objs, firstId, wrote, got, cleared, resdir>>

\* Database.clear begins: self.id_table.clear()
CallClear(t) ==
    /\ calls[t].pc = "idle"
    /\ LET r == IdTableClear(cache[ProcOf(t)][TheClass], table[TheClass])
       IN  /\ table' = [table EXCEPT ![TheClass] = r.table]
           /\ cache' = [cache EXCEPT ![ProcOf(t)][TheClass] = r.cache]
    /\ cleared' = TRUE
    /\ calls' = [calls EXCEPT ![t].pc = "rmtree"]
    /\ UNCHANGED <<results, objs, firstId, wrote, got, resdir>>

\* if self.results_directory.exists(): shutil.rmtree(self.results_directory)
Rmtree(t) ==
    /\ calls[t].pc = "rmtree"
    /\ results' = IF resdir THEN [results EXCEPT ![TheClass] = EmptyResults] ELSE results
    /\ resdir'  = FALSE
    /\ calls' = [calls EXCEPT ![t].pc = "mkdir"]
    /\ UNCHANGED <<table, cache, objs, firstId, wrote, got, cleared>>

\* self.results_directory.mkdir(), which raises when another clear made it already
Mkdir(t) ==
    /\ calls[t].pc = "mkdir"
    /\ resdir' = TRUE
    /\ calls' = [calls EXCEPT ![t] = IdleCall]
    /\ UNCHANGED <<dbVars, got, cleared>>

Quiet == \A t \in Callers : calls[t].pc = "idle"

InitConc ==
    /\ InitDb /\ InitRunIdle /\ InitMapIdle
    /\ calls = [t \in Callers |-> IdleCall]
    /\ got = {}
    /\ cleared = FALSE
    /\ resdir = TRUE
    /\ saved = <<>>

\* get_instance_dir calls only
NextConc ==
    \/ \E t \in Callers, k \in Keys : CallGetInstanceDir(t, k) /\ UNCHANGED <<runVars, mapVars, saved>>
    \/ \E t \in Callers : Transact(t) /\ UNCHANGED <<runVars, mapVars, saved>>
    \/ \E t \in Callers : Store(t) /\ UNCHANGED <<runVars, mapVars, saved>>
    \/ \E t \in Callers : Exists(t) /\ UNCHANGED <<runVars, mapVars, saved>>
    \/ \E t \in Callers : InitializeStep(t) /\ UNCHANGED <<runVars, mapVars, saved>>

SpecConc == InitConc /\ [][NextConc]_vars

\* get_instance_dir calls, and Database.clear by one of the callers
NextClear ==
    \/ \E t \in Callers, k \in Keys : CallGetInstanceDir(t, k) /\ UNCHANGED <<runVars, mapVars, saved>>
    \/ \E t \in Callers : Transact(t) /\ UNCHANGED <<runVars, mapVars, saved>>
    \/ \E t \in Callers : Store(t) /\ UNCHANGED <<runVars, mapVars, saved>>
    \/ \E t \in Callers : Exists(t) /\ UNCHANGED <<runVars, mapVars, saved>>
    \/ \E t \in Callers : InitializeStep(t) /\ UNCHANGED <<runVars, mapVars, saved>>
    \/ \E t \in Clearers : CallClear(t) /\ UNCHANGED <<runVars, mapVars, saved>>
    \/ \E t \in Clearers : Rmtree(t) /\ UNCHANGED <<runVars, mapVars, saved>>
    \/ \E t \in Clearers : Mkdir(t) /\ UNCHANGED <<runVars, mapVars, saved>>

SpecClear == InitConc /\ [][NextClear]_vars

-----------------------------------------------------------------------------
(* Running a graph.  taskproc/graph.py and taskproc/task.py are not in the
   source tree, so the resolver and the scheduler below follow the design
   document (sections 4.F and 4.G) and tests/test_taskproc.py; everything
   they do to the cache goes through the operators of database.py above.
   The run belongs to process 1.  Bodies are functions of their inputs, as
   in the tests.  A write of a file is later than every file written
   before it; since mtimes are only ever compared, each is kept as its rank
   among the mtimes on the path (0: no such file). *)

\* The graph of tests/test_taskproc.py:64-96, TaskC() over TaskA() and
\* TaskB(), and a second TaskC instance "d" over "c", so that one class has
\* two instances and the graph three layers.
Nodes        == {"a", "b", "c", "d"}
ResolveOrder == <<"a", "b", "c", "d">>   \* upstreams are constructed first
Root         == "d"
RunClasses   == {"TaskA", "TaskB", "TaskC"}
ClassOf(n)   == CASE n = "a" -> "TaskA" [] n = "b" -> "TaskB" [] OTHER -> "TaskC"
KeyOf(n)     == IF n = "d" THEN 2 ELSE 1
Ups(n)       == CASE n = "c" -> {"a", "b"} [] n = "d" -> {"c"} [] OTHER -> {}

\* the nodes n depends on, transitively, and the nodes that depend on n
RECURSIVE UpClosure(_)
UpClosure(n) == Ups(n) \cup UNION {UpClosure(u) : u \in Ups(n)}
Down(n)      == {m \in Nodes : n \in UpClosure(m)}

\* channel tags: the class's own name and the declared ones
ChannelsOf(c) ==
    CASE c = "TaskA" -> {"TaskA", "<mychan>", "<another_chan>"}
      [] c = "TaskB" -> {"TaskB", "<mychan>"}
      [] OTHER       -> {c}
AllChannels  == UNION {ChannelsOf(c) : c \in RunClasses}
UserChannels == {"<mychan>", "<another_chan>"}
NoLimit      == 0        \* the channel has no entry in rate_limits
MyChanLimit  == 1        \* rate_limits={'<mychan>': 1}
\* the rate_limits a call may pass: each declared channel limited or not
RateLimits   == {rl \in [AllChannels -> {NoLimit, MyChanLimit}] :
                    \A ch \in AllChannels \ UserChannels : rl[ch] = NoLimit}

\* the class being worked on: its definition is edited and loaded again,
\* and its cache cleared, between calls
Redefined    == {"TaskC"}

NumWorkers == 2      \* max_workers of the executor
NumSources == 2      \* distinct source strings a class is given

\* run_task of each node: TaskA and TaskB return constants, TaskC combines
\* its upstream values (f'{self.a}, {self.b}')
Body(n, in) ==
    CASE n = "a" -> 1
      [] n = "b" -> 2
      [] n = "c" -> 10 * in["a"] + in["b"]
      [] OTHER   -> 100 + in["c"]

\* A variant that rewrites source.txt on every call.
UpdateSourceAlways(src, s, now) == [text |-> s, mtime |-> now]

\* A variant that writes source.txt only when it is missing.
UpdateSourceIfMissing(src, s, now) ==
    IF src.text = 0 THEN [text |-> s, mtime |-> now] ELSE src

\* Database.update_source_if_necessary: source.txt is written when it is
\* missing or holds another string; its mtime is what the call returns.
UpdateSourceIfNecessary(src, s, now) ==
    IF src.text = 0 \/ src.text # s THEN [text |-> s, mtime |-> now] ELSE src

\* Database.load_source_timestamp
LoadSourceTimestamp(src) == src.mtime

\* the mtimes on the path, the time of the next write, and the ranks
Times(res, src) ==
    ({res[c][i].result : c \in RunClasses, i \in Ids} \cup {src[c].mtime : c \in RunClasses}) \ {0}
Now(res, src)   == Cardinality(Times(res, src)) + 1
Rank(T, t)      == Cardinality({x \in T : x <= t})
RankResults(res, src) ==
    [c \in RunClasses |-> [i \in Ids |-> [res[c][i] EXCEPT !.result = Rank(Times(res, src), @)]]]
RankSource(res, src) ==
    [c \in RunClasses |-> [src[c] EXCEPT !.mtime = Rank(Times(res, src), @)]]

\* the cache as process 1 sees it
RunDb == [table |-> table, cache |-> cache[1], results |-> results]

IdOf(cch, n)  == cch[ClassOf(n)][KeyOf(n)]
DirOf(st, n)  == st.results[ClassOf(n)][IdOf(st.cache, n)]
DepsOfNode(cch, n) == {[name |-> u, target |-> <<ClassOf(u), IdOf(cch, u)>>] : u \in Ups(n)}

\* Database.get_instance_dir for node n, its upstreams being resolved already
ResolveNode(st, n) ==
    LET c == ClassOf(n)
        g == IdTableGet(st.cache[c], st.table[c], KeyOf(n))
    IN  [table   |-> [st.table EXCEPT ![c] = g.table],
         cache   |-> [st.cache EXCEPT ![c] = g.cache],
         results |-> [st.results EXCEPT ![c] =
                        InstanceDirectoryInit(st.results[c], g.value, KeyOf(n), DepsOfNode(st.cache, n))]]

RECURSIVE ResolveSeq(_, _)
ResolveSeq(st, q) == IF q = <<>> THEN st ELSE ResolveSeq(ResolveNode(st, Head(q)), Tail(q))

\* the construction order restricted to the nodes of S
RECURSIVE OrderOf(_, _)
OrderOf(q, S) ==
    IF q = <<>> THEN <<>>
    ELSE IF Head(q) \in S THEN <<Head(q)>> \o OrderOf(Tail(q), S) ELSE OrderOf(Tail(q), S)

NodeTimestamp(st, n) == GetTimestamp(st.results[ClassOf(n)], IdOf(st.cache, n))

\* needs_run: the result is missing, an upstream is to run or has a newer
\* result, or source.txt is newer than the result
RECURSIVE NeedsRun(_, _, _)
NeedsRun(st, src, n) ==
    LET ts == NodeTimestamp(st, n)
    IN  \/ ts = 0
        \/ \E u \in Ups(n) : NeedsRun(st, src, u) \/ NodeTimestamp(st, u) > ts
        \/ LoadSourceTimestamp(src[ClassOf(n)]) > ts

Running == {n \in Nodes : nstate[n] = "running"}

\* A variant that asks for a free permit in only one of the node's channels.
PermitsFreeInSome(n) ==
    \E ch \in ChannelsOf(ClassOf(n)) : limits[ch] = NoLimit \/ permits[ch] < limits[ch]

\* a permit is free in every limited channel of the node
PermitsFree(n) ==
    \A ch \in ChannelsOf(ClassOf(n)) : limits[ch] = NoLimit \/ permits[ch] < limits[ch]

\* the nodes that hold a permit of channel ch
RunningIn(ch) == {n \in Running : ch \in ChannelsOf(ClassOf(n))}

\* the result files written by the current call
Written == {<<ClassOf(n), IdOf(cache[1], n)>> : n \in executed}

\* the result files on the path
FilesOf(res) == {<<c, i>> \in RunClasses \X Ids : res[c][i].result # 0}

\* A variant that starts a node as soon as its upstreams are finished, failed or not.
ReadyAfterAny(n) ==
    /\ nstate[n] = "not_started"
    /\ \A u \in Ups(n) : nstate[u] \in {"succeeded", "failed"}

\* a node is ready when no error is set and all its upstreams succeeded
Ready(n) ==
    /\ nstate[n] = "not_started"
    /\ error = ""
    /\ \A u \in Ups(n) : nstate[u] = "succeeded"

Acquire(n) == [ch \in AllChannels |-> IF ch \in ChannelsOf(ClassOf(n)) THEN permits[ch] + 1 ELSE permits[ch]]
\* A variant in which a finished node keeps its permits.
ReleaseNone(n) == permits

Release(n) == [ch \in AllChannels |-> IF ch \in ChannelsOf(ClassOf(n)) THEN permits[ch] - 1 ELSE permits[ch]]

NoForced == [c \in RunClasses |-> 0]

\* update_source_if_necessary(s) for class c, between two runs
UpdateSource(c, s) ==
    /\ pc = "idle"
    /\ LET new == [source EXCEPT ![c] = UpdateSourceIfNecessary(source[c], s, Now(results, source))]
       IN  /\ source'  = RankSource(results, new)
           /\ results' = RankResults(results, new)
    /\ forced'  = IF s # source[c].text THEN [forced EXCEPT ![c] = s] ELSE forced
    /\ clean'   = (clean /\ s = source[c].text)
    /\ pending' = IF s # source[c].text THEN "" ELSE pending
    /\ UNCHANGED <<table, cache, objs, firstId, wrote, pc, limits, nstate, toRun, permits,
                   executed, error, outcome, mustRun, mapVars, auxVars>>

\* run_graph(rate_limits=rl): resolve the graph, mark the nodes to run
StartRun(rl) ==
    /\ pc = "idle"
    /\ \A c \in RunClasses : source[c].text # 0
    /\ LET st     == ResolveSeq(RunDb, ResolveOrder)
           marked == {n \in Nodes : NeedsRun(st, source, n)}
       IN  /\ table'   = st.table
           /\ cache'   = [cache EXCEPT ![1] = st.cache]
           /\ results' = st.results
           /\ toRun'   = marked
           /\ nstate'  = [n \in Nodes |-> IF n \in marked THEN "not_started" ELSE "succeeded"]
    /\ pc' = "sched"
    /\ limits'   = rl
    /\ mustRun'  = {n \in Nodes : forced[ClassOf(n)] # 0}
    /\ forced'   = NoForced
    /\ UNCHANGED <<objs, firstId, wrote, source, permits, executed, error, outcome,
                   clean, pending, mapVars, auxVars>>

\* the loop takes a ready node, acquires its permits and hands it to a worker
Start(n) ==
    /\ pc = "sched"
    /\ Ready(n)
    /\ PermitsFree(n)
    /\ Cardinality(Running) < NumWorkers
    /\ nstate'  = [nstate EXCEPT ![n] = "running"]
    /\ permits' = Acquire(n)
    /\ UNCHANGED <<dbVars, source, pc, limits, toRun, executed, error, outcome,
                   clean, pending, forced, mustRun, mapVars, auxVars>>

\* the worker ran the body on the upstream results and saved the result
Succeed(n) ==
    /\ pc = "sched"
    /\ nstate[n] = "running"
    /\ SaveResultOk(results[ClassOf(n)], IdOf(cache[1], n))
    /\ LET in  == [u \in Ups(n) |-> LoadResult(results[ClassOf(u)], IdOf(cache[1], u))]
           new == [results EXCEPT ![ClassOf(n)] =
                     SaveResultTo(results[ClassOf(n)], IdOf(cache[1], n), Body(n, in), Now(results, source))]
       IN  /\ results' = RankResults(new, source)
           /\ source'  = RankSource(new, source)
    /\ nstate'   = [nstate EXCEPT ![n] = "succeeded"]
    /\ permits'  = Release(n)
    /\ executed' = executed \cup {n}
    /\ UNCHANGED <<table, cache, objs, firstId, wrote, pc, limits, toRun, error, outcome,
                   clean, pending, forced, mustRun, mapVars, auxVars>>

\* A variant that keeps the latest failure.
LastError(n) == n

\* the failure surfaced as the cause: the first one
FirstError(n) == IF error = "" THEN n ELSE error

\* the body raised: the node is failed, the first failure is the one kept
Fail(n) ==
    /\ pc = "sched"
    /\ nstate[n] = "running"
    /\ nstate'  = [nstate EXCEPT ![n] = "failed"]
    /\ permits' = Release(n)
    /\ error'   = FirstError(n)
    /\ UNCHANGED <<dbVars, source, pc, limits, toRun, executed, outcome,
                   clean, pending, forced, mustRun, mapVars, auxVars>>

\* what run_graph returns once nothing is in flight: the root's value, or
\* FailedTaskError naming the first failure
Returns ==
    IF error = ""
    THEN [kind |-> "value", value |-> LoadResult(results[ClassOf(Root)], IdOf(cache[1], Root)), node |-> ""]
    ELSE [kind |-> "FailedTaskError", value |-> 0, node |-> error]

\* nothing is in flight and either all is done or an error is set; the
\* graph and its permits go away with the call
Finish ==
    /\ pc = "sched"
    /\ Running = {}
    /\ error # "" \/ \A n \in Nodes : nstate[n] = "succeeded"
    /\ pc' = "idle"
    /\ outcome' = Returns
    /\ clean'   = (error = "")
    /\ pending' = ""
    /\ limits'  = [ch \in AllChannels |-> NoLimit]
    /\ nstate'  = [n \in Nodes |-> "not_started"]
    /\ toRun'   = {}
    /\ executed' = {}
    /\ error'   = ""
    /\ mustRun' = {}
    /\ permits' = [ch \in AllChannels |-> 0]
    /\ UNCHANGED <<dbVars, source, forced, mapVars, auxVars>>

\* n.clear_task(): the task object is built, which resolves it and its
\* upstreams, and its directory is initialized again
RunClearTask(n) ==
    /\ pc = "idle"
    /\ LET st  == ResolveSeq(RunDb, OrderOf(ResolveOrder, UpClosure(n) \cup {n}))
           c   == ClassOf(n)
           new == [st.results EXCEPT ![c] =
                     DeleteDir(st.results[c], IdOf(st.cache, n), KeyOf(n), DepsOfNode(st.cache, n))]
       IN  /\ table'   = st.table
           /\ cache'   = [cache EXCEPT ![1] = st.cache]
           /\ results' = RankResults(new, source)
           /\ source'  = RankSource(new, source)
    /\ pending' = IF clean THEN n ELSE ""
    /\ clean'   = FALSE
    /\ UNCHANGED <<objs, firstId, wrote, pc, limits, nstate, toRun, permits, executed,
                   error, outcome, forced, mustRun, mapVars, auxVars>>

\* c.clear_all_tasks(): Database.clear()
RunClearAll(c) ==
    /\ pc = "idle"
    /\ LET r   == IdTableClear(cache[1][c], table[c])
           new == [results EXCEPT ![c] = EmptyResults]
       IN  /\ table'   = [table EXCEPT ![c] = r.table]
           /\ cache'   = [cache EXCEPT ![1][c] = r.cache]
           /\ results' = RankResults(new, source)
           /\ source'  = RankSource(new, source)
    /\ pending' = ""
    /\ clean'   = FALSE
    /\ UNCHANGED <<objs, firstId, wrote, pc, limits, nstate, toRun, permits, executed,
                   error, outcome, forced, mustRun, mapVars, auxVars>>

\* The cache directory is new; TaskA and TaskB are defined, which wrote their
\* source.txt, and TaskC is about to be.
InitRun ==
    /\ InitDbFor(RunClasses)
    /\ InitMapIdle
    /\ InitAuxIdle
    /\ source  = [c \in RunClasses |->
                    CASE c = "TaskA" -> [text |-> 1, mtime |-> 1]
                      [] c = "TaskB" -> [text |-> 1, mtime |-> 2]
                      [] OTHER       -> [text |-> 0, mtime |-> 0]]
    /\ pc      = "idle"
    /\ limits  = [ch \in AllChannels |-> NoLimit]
    /\ nstate  = [n \in Nodes |-> "not_started"]
    /\ toRun   = {}
    /\ permits = [ch \in AllChannels |-> 0]
    /\ executed = {}
    /\ error   = ""
    /\ outcome = NoOutcome
    /\ clean   = FALSE
    /\ pending = ""
    /\ forced  = NoForced
    /\ mustRun = {}

NextRun ==
    \/ \E c \in Redefined, s \in 1..NumSources : UpdateSource(c, s)
    \/ \E rl \in RateLimits : StartRun(rl)
    \/ \E n \in Nodes : Start(n)
    \/ \E n \in Nodes : Succeed(n)
    \/ \E n \in Nodes : Fail(n)
    \/ Finish
    \/ \E n \in Nodes : RunClearTask(n)
    \/ \E c \in Redefined : RunClearAll(c)

SpecRun == InitRun /\ [][NextRun]_vars

\* The scheduler alone, every class defined: calls of run_graph and of
\* clear_task between them. The loop goes on picking ready nodes, every
\* body that was started ends, and the call returns when it can.
InitSched ==
    /\ InitDbFor(RunClasses)
    /\ InitMapIdle
    /\ InitAuxIdle
    /\ source  = [c \in RunClasses |->
                    CASE c = "TaskA" -> [text |-> 1, mtime |-> 1]
                      [] c = "TaskB" -> [text |-> 1, mtime |-> 2]
                      [] OTHER       -> [text |-> 1, mtime |-> 3]]
    /\ pc      = "idle"
    /\ limits  = [ch \in AllChannels |-> NoLimit]
    /\ nstate  = [n \in Nodes |-> "not_started"]
    /\ toRun   = {}
    /\ permits = [ch \in AllChannels |-> 0]
    /\ executed = {}
    /\ error   = ""
    /\ outcome = NoOutcome
    /\ clean   = FALSE
    /\ pending = ""
    /\ forced  = NoForced
    /\ mustRun = {}

NextSched ==
    \/ \E rl \in RateLimits : StartRun(rl)
    \/ \E n \in Nodes : Start(n)
    \/ \E n \in Nodes : Succeed(n)
    \/ \E n \in Nodes : Fail(n)
    \/ Finish
    \/ \E n \in Nodes : RunClearTask(n)

FairSched ==
    /\ WF_vars(\E n \in Nodes : Start(n))
    /\ \A n \in Nodes : WF_vars(Succeed(n) \/ Fail(n))
    /\ WF_vars(Finish)

SpecSched == InitSched /\ [][NextSched]_vars /\ FairSched

-----------------------------------------------------------------------------
(* Futures (future.py) *)

\* Keys of __getitem__ and result values. A key is a str or an int; a value
\* is an int, a dict or a list (a list's items are keyed by 0..len-1).
KStr(s) == [kind |-> "str", s |-> s, i |-> 0]
KInt(i) == [kind |-> "int", s |-> "", i |-> i]
NoKey   == [kind |-> "none", s |-> "", i |-> 0]
JsonKeys == {KStr("hello"), KStr("a"), KInt(0), KInt(1), KInt(-1)}

NoItems   == [k \in {} |-> 0]
PyInt(n)  == [kind |-> "int", atom |-> n, items |-> NoItems]
PyDict(f) == [kind |-> "dict", atom |-> 0, items |-> f]
PyList(q) == [kind |-> "list", atom |-> 0, items |-> [k \in {KInt(j - 1) : j \in 1..Len(q)} |-> q[k.i + 1]]]
PyError(e) == [kind |-> "error", atom |-> e, items |-> NoItems]
KeyError == 1
IndexError == 2
TypeError == 3
NoValue == PyInt(-1)

\* out[k] in Python: a dict is looked up by key, a list by an int index
\* (a negative one counts from the end), an int cannot be indexed; an
\* exception, once raised, is what the caller gets.
PyGetItem(out, k) ==
    CASE out.kind = "error" -> out
      [] out.kind = "dict"  -> IF k \in DOMAIN out.items THEN out.items[k] ELSE PyError(KeyError)
      [] out.kind = "list"  ->
            IF k.kind # "int" THEN PyError(TypeError)
            ELSE LET n == Cardinality(DOMAIN out.items)
                     j == IF k.i < 0 THEN k.i + n ELSE k.i
                 IN  IF j >= 0 /\ j < n THEN out.items[KInt(j)] ELSE PyError(IndexError)
      [] OTHER -> PyError(TypeError)

\* The results of the origins: MultiResultTask's {'hello': [.., ..]}
\* (tests/test_taskproc.py:196-197) and two more nested literals.
ResultValues ==
    { PyDict(KStr("hello") :> PyList(<<PyInt(7), PyInt(42)>>)),
      PyList(<<PyDict(KStr("a") :> PyInt(1) @@ KStr("hello") :> PyInt(2)), PyInt(5)>>),
      PyDict(KStr("a") :> PyDict(KInt(0) :> PyList(<<PyInt(3)>>) @@ KInt(1) :> PyInt(4))) }

\* Const(value) and a task whose stored result is value
Const(v)   == [kind |-> "const", value |-> v, task |-> 0, key |-> NoKey]
TaskOf(v)  == [kind |-> "task", value |-> v, task |-> 0, key |-> NoKey]
\* MappedFuture(task, key)
MappedFuture(t, k) == [kind |-> "mapped", value |-> NoValue, task |-> t, key |-> k]

Reverse(q) == [j \in 1..Len(q) |-> q[Len(q) + 1 - j]]

\* MappedFuture.get_origin
RECURSIVE GetOrigin(_, _)
GetOrigin(h, x) ==
    IF h[h[x].task].kind = "mapped" THEN GetOrigin(h, h[x].task) ELSE h[x].task

\* The loop of get_args: out.append(x.key); x = x.task while x is a MappedFuture
RECURSIVE CollectKeys(_, _)
CollectKeys(h, x) ==
    IF h[x].kind = "mapped" THEN <<h[x].key>> \o CollectKeys(h, h[x].task) ELSE <<>>

\* get_args that returns out as collected, outermost key first.
GetArgsUnreversed(h, x) == CollectKeys(h, x)

\* MappedFuture.get_args: return out[::-1]
GetArgs(h, x) == Reverse(CollectKeys(h, x))

\* for k in args: out = out[k]
RECURSIVE IndexAll(_, _)
IndexAll(out, args) ==
    IF args = <<>> THEN out ELSE IndexAll(PyGetItem(out, Head(args)), Tail(args))

\* get_task_result of any future: Const and tasks return their value,
\* a MappedFuture indexes its origin's result by get_args().
GetTaskResult(h, x) ==
    IF h[x].kind = "mapped"
    THEN IndexAll(h[GetOrigin(h, x)].value, GetArgs(h, x))
    ELSE h[x].value

\* f[key]: FutureMapperMixin.__getitem__ on the newest future
GetItem(key) ==
    /\ Len(heap) <= MaxChain
    /\ heap'   = Append(heap, MappedFuture(fut, key))
    /\ fut'    = Len(heap) + 1
    /\ path'   = Append(path, key)
    /\ direct' = PyGetItem(direct, key)
    /\ UNCHANGED <<base, basePath>>

\* The caller keeps the future built so far and indexes it from here:
\* f is now that future, itself a projection.
TakeAsBase ==
    /\ path # <<>>
    /\ base'     = fut
    /\ basePath' = basePath \o path
    /\ path'     = <<>>
    /\ direct'   = GetTaskResult(heap, fut)
    /\ UNCHANGED <<heap, fut>>

InitMap ==
    /\ \E v \in ResultValues : heap \in {<<Const(v)>>, <<TaskOf(v)>>}
    /\ base = 1 /\ fut = 1 /\ path = <<>> /\ basePath = <<>>
    /\ direct = heap[1].value
    /\ InitDb /\ InitRunIdle /\ InitAuxIdle

NextMap ==
    \/ \E key \in JsonKeys : GetItem(key) /\ UNCHANGED <<dbVars, runVars, auxVars>>
    \/ TakeAsBase /\ UNCHANGED <<dbVars, runVars, auxVars>>

SpecMap == InitMap /\ [][NextMap]_vars

-----------------------------------------------------------------------------
(* Claims about the id table and the instance directories *)

\* C1 (as claimed): the ids get returns are injective. In every state, two
\* get calls issued now one after the other, through any two IdTable objects
\* on the path and for two distinct fingerprints, return different ids.
C1_IdsInjective ==
    \A p1 \in Procs, p2 \in Procs, k1 \in Keys, k2 \in Keys :
        k1 # k2 =>
            LET g1 == IdTableGet(cache[p1][TheClass], table[TheClass], k1)
                c2 == IF p2 = p1 THEN g1.cache ELSE cache[p2][TheClass]
                g2 == IdTableGet(c2, g1.table, k2)
            IN  g1.value # g2.value

C7_ScratchPersists ==
    \A k \in Keys :
        wrote["CreateFile"][k] # None =>
            /\ results["CreateFile"][wrote["CreateFile"][k]].exists
            /\ results["CreateFile"][wrote["CreateFile"][k]].data = k

\* C10 (as claimed): for any future f, the projection f[k1]...[kn] reads
\* f's result indexed by k1, ..., kn in that order, its get_origin() is f
\* and its get_args() is <<k1, ..., kn>>.
C10_Transparent ==
    path # <<>> =>
        /\ GetTaskResult(heap, fut) = direct
        /\ GetOrigin(heap, fut) = base
        /\ GetArgs(heap, fut) = path

\* C10 (amended): the projection reads f's result indexed by k1, ..., kn in
\* that order; its get_origin() is f's origin (heap[1], the Const or task the
\* whole chain stands on: f itself when f is no projection) and its
\* get_args() is f's own keys followed by k1, ..., kn.
C10_TransparentAmended ==
    path # <<>> =>
        /\ GetTaskResult(heap, fut) = direct
        /\ GetOrigin(heap, fut) = 1
        /\ (basePath = <<>> => GetOrigin(heap, fut) = base)
        /\ GetArgs(heap, fut) = basePath \o path

\* C10's case: the chain of test_mapping, ['hello'][1], read as 42
C10_Witness ==
    /\ base = 1
    /\ path = <<KStr("hello"), KInt(1)>>
    /\ GetTaskResult(heap, fut) = PyInt(42)

\* C2: once a run has succeeded and nothing has been cleared and no source
\* string changed since, the next run marks no node, executes none and
\* returns the value the run before it returned.
C2_CacheMonotone ==
    (pc = "sched" /\ clean) =>
        /\ toRun = {}
        /\ executed = {}
        /\ Returns = outcome

C2_Witness ==
    /\ pc = "sched" /\ clean
    /\ outcome.kind = "value" /\ outcome.value = 112
    /\ \A n \in Nodes : nstate[n] = "succeeded"
    /\ source["TaskC"].text = 2

\* C3: after a successful run and clear_task(n) on one node n, the next run
\* marks and executes exactly n and the nodes that depend on n, and returns
\* the value the run before it returned.
C3_ClearTaskReruns ==
    (pc = "sched" /\ pending \in Nodes) =>
        /\ toRun = {pending} \cup Down(pending)
        /\ executed \subseteq toRun
        /\ (error = "" /\ \A n \in Nodes : nstate[n] = "succeeded") =>
                /\ executed = toRun
                /\ Returns.value = outcome.value

\* C4: a limited channel never has more running nodes than its limit, and
\* the permits taken in a channel are those of its running nodes, one each.
C4_ChannelBound ==
    pc = "sched" =>
        \A ch \in AllChannels :
            /\ limits[ch] # NoLimit => Cardinality(RunningIn(ch)) <= limits[ch]
            /\ permits[ch] = Cardinality(RunningIn(ch))

C4_Witness ==
    /\ pc = "sched"
    /\ limits["<mychan>"] = MyChanLimit /\ limits["<another_chan>"] = MyChanLimit
    /\ nstate["a"] = "running"
    /\ permits["<mychan>"] = 1 /\ permits["<another_chan>"] = 1
    /\ Ready("b") /\ ~PermitsFree("b")
    /\ Cardinality(Running) < NumWorkers

\* C5: once a node has failed the call can only end in FailedTaskError, and
\* a node that depends on a failed node is never started and no result is
\* written for it.
C5_FailurePropagates ==
    pc = "sched" =>
        /\ (\E n \in Nodes : nstate[n] = "failed") => Returns.kind = "FailedTaskError"
        /\ \A n \in Nodes : \A u \in UpClosure(n) :
              nstate[u] = "failed" =>
                  /\ nstate[n] = "not_started"
                  /\ n \notin executed
                  /\ <<ClassOf(n), IdOf(cache[1], n)>> \notin Written

C5_Witness ==
    /\ pc = "sched"
    /\ nstate["a"] = "failed" /\ error = "a"
    /\ nstate["b"] = "succeeded" /\ "b" \in executed
    /\ nstate["c"] = "not_started" /\ nstate["d"] = "not_started"

\* C6: a running node has all its upstreams succeeded, and the result file
\* of each of them is there.
C6_DagOrder ==
    pc = "sched" =>
        \A n \in Running : \A u \in Ups(n) :
            /\ nstate[u] = "succeeded"
            /\ NodeTimestamp(RunDb, u) # 0

C6_Witness ==
    /\ pc = "sched"
    /\ nstate["d"] = "running"
    /\ "c" \in executed /\ "a" \notin executed
    /\ NodeTimestamp(RunDb, "c") > NodeTimestamp(RunDb, "a")

\* C9: a source string other than the stored one (or with no source.txt) is
\* written, with an mtime newer than every result of the class, and the next
\* run marks every instance of the class; the stored string, given again,
\* leaves source.txt and its mtime as they are.
C9_SourceWritten ==
    /\ pc = "idle" =>
          \A c \in RunClasses : forced[c] # 0 =>
              /\ source[c].text = forced[c]
              /\ \A i \in Ids : results[c][i].result < LoadSourceTimestamp(source[c])
    /\ pc = "sched" => mustRun \subseteq toRun

C9_SourceKept ==
    (/\ pc = "idle" /\ pc' = "idle"
     /\ forced' = forced
     /\ FilesOf(results') = FilesOf(results)) => source' = source

C9_SourceInvalidation == [](C9_SourceWritten) /\ [][C9_SourceKept]_vars

C9_Witness ==
    /\ pc = "sched"
    /\ mustRun = {"c", "d"} /\ toRun = {"c", "d"}
    /\ source["TaskC"].text = 2
    /\ NodeTimestamp(RunDb, "c") # 0 /\ NodeTimestamp(RunDb, "d") # 0

\* C11 (as claimed): clear() also empties the in-process cache, so a get(k)
\* for a fingerprint the table does not hold goes through the transaction:
\* it inserts k and returns the size the table had.
C11_ClearEmptiesCache ==
    \A p \in Procs, k \in Keys :
        table[TheClass][k] = None =>
            LET g == IdTableGet(cache[p][TheClass], table[TheClass], k)
            IN  /\ g.table[k] # None
                /\ g.value = TableLen(table[TheClass])

\* C12: however the get calls of threads and processes interleave, with no
\* clear, two returned ids are equal exactly when their fingerprints are.
C12_ConcurrentIds ==
    \A a \in got, b \in got : (a[1] = b[1]) <=> (a[2] = b[2])

\* C12's case: two threads of one process both missed the cache for the same
\* fingerprint and both went through the transaction, while the other
\* process got another fingerprint its id.
C12_Witness ==
    /\ calls[1].pc = "store" /\ calls[2].pc = "store"
    /\ calls[1].key = 1 /\ calls[2].key = 1
    /\ calls[1].id = 1 /\ calls[2].id = 1
    /\ <<2, 0>> \in got
    /\ cache[2][TheClass][2] = 0

\* C13 (as claimed): over get and clear calls, an id that was returned for
\* one fingerprint is never returned for another.
C13_IdsNeverReused ==
    \A a \in got, b \in got : (a[2] = b[2]) => (a[1] = b[1])

\* C16 (as claimed): whenever no call is in progress, the fingerprints of
\* the table and the directories under results/ correspond, and results/
\* exists.
C16_ClearAtomic ==
    Quiet =>
        /\ resdir
        /\ \A k \in Keys : table[TheClass][k] # None => results[TheClass][table[TheClass][k]].exists
        /\ \A i \in Ids : results[TheClass][i].exists => \E k \in Keys : table[TheClass][k] = i

\* C14 (as claimed): the directory get_instance_dir(key, deps) returns holds
\* key in its args.json, whatever calls came before.
C14_ArgsIsKey ==
    \A c \in Classes : \A k \in KeysOf(c), d \in DepsOf(c) :
        LET g   == IdTableGet(cache[1][c], table[c], k)
            res == InstanceDirectoryInit(results[c], g.value, k, d)
        IN  res[g.value].args = k

\* C15 (as claimed): the InstanceDirectory of a task holds a result file
\* exactly when save_result was called on it since its directory was last
\* created, deleted or cleared; without one, get_timestamp raises.
C15_ResultIffSaved ==
    \A c \in Classes : \A k \in KeysOf(c) :
        objs[c][k] # NoObj =>
            /\ (results[c][objs[c][k].id].result # 0) <=> (saved[c][k] = "yes")
            /\ saved[c][k] # "yes" => GetTimestamp(results[c], objs[c][k].id) = 0

\* C17 (as claimed): the directory get_instance_dir(key, deps) returns holds
\* in deps/ one link per name of deps, to that upstream's present directory,
\* or the sentinel when deps is empty.
C17_DepsMatch ==
    \A c \in Classes : \A k \in KeysOf(c), d \in DepsOf(c) :
        LET g   == IdTableGet(cache[1][c], table[c], k)
            res == InstanceDirectoryInit(results[c], g.value, k, d)
        IN  res[g.value].deps = IF d = NoDeps THEN Sentinel ELSE d

\* C20: get_instance_dir for a fingerprint whose directory exists leaves the
\* directory as it is, and an existing directory loses its contents only in
\* a delete() or a clear().
C20_ReobtainKeeps ==
    \A c \in Classes : \A k \in KeysOf(c), d \in DepsOf(c) :
        LET g == IdTableGet(cache[1][c], table[c], k)
        IN  results[c][g.value].exists =>
                InstanceDirectoryInit(results[c], g.value, k, d) = results[c]

C20_OnlyDeleteAndClearWipe ==
    \A c \in Classes, i \in Ids :
        LET old == results[c][i]
            new == results'[c][i]
            wiped == /\ old.exists
                     /\ \/ ~new.exists
                        \/ old.result # 0 /\ new.result = 0
                        \/ old.data # 0 /\ new.data = 0
                        \/ new.args # old.args
                        \/ new.deps # old.deps
        IN  wiped =>
            \/ results'[c] = EmptyResults
            \/ \E k \in Keys : /\ objs[c][k] # NoObj
                               /\ objs[c][k].id = i
                               /\ results'[c][i] = Initialize(k, objs[c][k].deps)

C20_NonDestructive == [](C20_ReobtainKeeps) /\ [][C20_OnlyDeleteAndClearWipe]_vars

\* C20's case: a directory with a result and a file in data/ whose task is
\* built again.
C20_Witness ==
    \E k \in Keys :
        /\ objs["CreateFile"][k] # NoObj
        /\ cache[1]["CreateFile"][k] = objs["CreateFile"][k].id
        /\ results["CreateFile"][objs["CreateFile"][k].id].result # 0
        /\ results["CreateFile"][objs["CreateFile"][k].id].data = k
        /\ saved["CreateFile"][k] = "yes"

\* a node of the call in progress that is still to be started and whose
\* upstreams have all succeeded
UpstreamsSucceeded(n) ==
    /\ pc = "sched"
    /\ nstate[n] = "not_started"
    /\ \A u \in Ups(n) : nstate[u] = "succeeded"

\* C18 (as claimed): a call of run_graph returns, and every node to run whose
\* upstreams all succeeded is started.
C18_Termination ==
    /\ (pc = "sched") ~> (pc = "idle")
    /\ \A n \in Nodes : UpstreamsSucceeded(n) ~> (nstate[n] = "running")

\* C18 (amended): a call of run_graph returns, and every node to run whose
\* upstreams all succeeded is started unless a node fails before that.
C18_TerminationAmended ==
    /\ (pc = "sched") ~> (pc = "idle")
    /\ \A n \in Nodes : UpstreamsSucceeded(n) ~> (nstate[n] = "running" \/ error # "")

\* C18's case: TaskB's node waits for the one permit of <mychan>, which
\* TaskA's node, tagged with two limited channels, holds.
C18_Witness ==
    /\ pc = "sched"
    /\ limits["<mychan>"] = MyChanLimit /\ limits["<another_chan>"] = MyChanLimit
    /\ nstate["a"] = "running"
    /\ UpstreamsSucceeded("b")
    /\ ~PermitsFree("b")

\* C19: a failure cancels nothing. A running node leaves that state only by
\* succeeding, its result then saved, or by failing; run_graph returns only
\* when no node is running; and the FailedTaskError it raises names the node
\* that failed first, whatever fails after it.
C19_Step ==
    /\ \A n \in Nodes :
          nstate[n] = "running" /\ nstate'[n] # "running" =>
              /\ pc' = "sched"
              /\ nstate'[n] \in {"succeeded", "failed"}
              /\ nstate'[n] = "succeeded" =>
                     results'[ClassOf(n)][IdOf(cache[1], n)].result # 0
    /\ pc = "sched" /\ pc' = "idle" =>
          /\ Running = {}
          /\ error # "" => outcome' = [kind |-> "FailedTaskError", value |-> 0, node |-> error]
    /\ error = "" /\ error' # "" =>
          nstate[error'] = "running" /\ nstate'[error'] = "failed"
    /\ error # "" /\ pc' = "sched" => error' = error

C19_DrainOnFailure == [][C19_Step]_vars

\* C19's case: TaskA's node has failed while TaskB's node is running.
C19_Witness ==
    /\ pc = "sched"
    /\ error = "a"
    /\ nstate["a"] = "failed"
    /\ nstate["b"] = "running"

====
